---------------------------- MODULE Spec2Model ----------------------------
(***************************************************************************)
(* Model of src/app/etl.py: the batch loader that copies six relational    *)
(* tables into a property graph.  The graph store is modelled by what the  *)
(* Cypher statements of etl() do to it: MERGE matches every node or        *)
(* relationship that fits the pattern and creates one when none fits,      *)
(* MATCH only binds, SET writes a property of everything bound.            *)
(*                                                                         *)
(* Spec is etl() run again and again: the two readiness gates, the         *)
(* statement file, the extraction, the eight load loops.  SpecGate is one  *)
(* gate called on its own with any timeout, SpecGateFair the same with the *)
(* gate running on, SpecChunk is chunk() called on its own.                *)
(***************************************************************************)
EXTENDS Integers, Sequences, FiniteSets, TLC

(***************************************************************************)
(* Bounds of the model.                                                    *)
(***************************************************************************)
\* Rows per extracted table, and the range 1..MaxRows of the source keys.
MaxRows == 2
\* Property values (names, prices, quantities, timestamps) are 1..MaxVal.
MaxVal == 2
\* Disturbances in one behaviour: changes of the source and failed batches.
MaxDisturbances == 1
\* Rows per batch.  The program's value is 100 (etl.py line 9); it is scaled
\* down with the tables so that a table spans several batches.
CHUNK_SIZE == 1
\* chunk() on its own: list length, element values, and |size|.
MaxLen == 4
MaxItem == 2
MaxSize == 2
\* The statement file: the number of pieces between its ';'.
MaxPieces == 3
\* The gates: the timeout etl() leaves at its default.  The program's value
\* is 60 (etl.py lines 72 and 92); it is scaled down with the probe times.
DefaultTimeout == 1
\* Seconds a probe may take, and the timeouts of a gate called on its own.
MaxProbeTime == 2
MaxTimeout == 3

Vals == 1..MaxVal

Min(a, b) == IF a <= b THEN a ELSE b

(***************************************************************************)
(* chunk(items, size): range(0, len(items), size) and the slice            *)
(* items[i:i + size].                                                      *)
(***************************************************************************)
\* range(start, stop, step) raises ValueError when step is zero.
RangeRaises(step) == step = 0

\* The range taken to include its stop.
RangeHasNextOffByOne(i, stop, step) ==
    \/ step > 0 /\ i <= stop
    \/ step < 0 /\ i > stop

\* Whether the cursor i is still an element of range(0, stop, step).
RangeHasNext(i, stop, step) ==
    \/ step > 0 /\ i < stop
    \/ step < 0 /\ i > stop

\* The slice one element short.
SliceShort(items, i, j) == SubSeq(items, i + 1, Min(j, Len(items)) - 1)

\* items[i:j] for 0 <= i <= j: the elements at the 0-based positions i..j-1
\* that exist.
Slice(items, i, j) == SubSeq(items, i + 1, Min(j, Len(items)))

\* The number of chunks chunk(items, size) yields, size >= 1.
NumChunks(n, size) == (n + size - 1) \div size

(***************************************************************************)
(* The graph store.  A node is [nid, label, props], a relationship is      *)
(* [rid, type, from, to, props] with from and to the nids of its ends;     *)
(* props is a function from property names to values.  next is the next    *)
(* fresh internal id.                                                      *)
(***************************************************************************)
NoProps == [k \in {} |-> 0]

EmptyGraph == [nodes |-> {}, rels |-> {}, next |-> 1]

SetProp(props, k, v) ==
    [x \in (DOMAIN props) \cup {k} |-> IF x = k THEN v ELSE props[x]]

HasProps(props, key) ==
    \A k \in DOMAIN key : k \in DOMAIN props /\ props[k] = key[k]

\* date(text) and datetime(text): the parsed temporal value, not the text.
Date(text) == <<"date", text>>
DateTime(text) == <<"datetime", text>>

\* MATCH (n:label {id: id}): the nids bound.
MatchNode(g, label, id) ==
    {n.nid : n \in {m \in g.nodes : m.label = label /\ HasProps(m.props, [id |-> id])}}

\* CREATE (n:label {id: id}).
CreateNode(g, label, id) ==
    [g EXCEPT !.nodes = @ \cup {[nid |-> g.next, label |-> label,
                                 props |-> SetProp(NoProps, "id", id)]},
              !.next = @ + 1]

\* CREATE in the place of MERGE: a node is added every time.
MergeNodeCreating(g, label, id) == CreateNode(g, label, id)

\* MERGE (n:label {id: id}).
MergeNode(g, label, id) ==
    IF MatchNode(g, label, id) # {} THEN g ELSE CreateNode(g, label, id)

\* SET n.k = v for every bound n.
SetNode(g, nids, k, v) ==
    [g EXCEPT !.nodes = {IF n.nid \in nids THEN [n EXCEPT !.props = SetProp(@, k, v)]
                         ELSE n : n \in @}]

\* The rids of the relationships (a)-[:type key]->(b), a in from, b in to.
MatchRel(g, type, from, to, key) ==
    {r.rid : r \in {s \in g.rels : /\ s.type = type
                                   /\ s.from \in from
                                   /\ s.to \in to
                                   /\ HasProps(s.props, key)}}

CreateRel(g, type, a, b, key) ==
    [g EXCEPT !.rels = @ \cup {[rid |-> g.next, type |-> type, from |-> a,
                                to |-> b, props |-> key]},
              !.next = @ + 1]

\* CREATE in the place of MERGE: a relationship is added every time.
MergeRelCreating(g, type, a, b, key) == CreateRel(g, type, a, b, key)

\* MERGE (a)-[:type key]->(b) for one bound pair.
MergeRel(g, type, a, b, key) ==
    IF MatchRel(g, type, {a}, {b}, key) # {} THEN g ELSE CreateRel(g, type, a, b, key)

\* MERGE (a)-[:type key]->(b) for every pair the preceding clauses bound.
RECURSIVE MergeRels(_, _, _, _)
MergeRels(g, type, pairs, key) ==
    IF pairs = {} THEN g
    ELSE LET p == CHOOSE x \in pairs : TRUE
         IN  MergeRels(MergeRel(g, type, p[1], p[2], key), type, pairs \ {p}, key)

\* SET that adds the quantity to the one the relationship holds.
SetRelAccumulating(g, rids, k, v) ==
    [g EXCEPT !.rels = {IF r.rid \in rids
                        THEN [r EXCEPT !.props =
                                 SetProp(@, k, IF k = "quantity" /\ k \in DOMAIN @
                                               THEN @[k] + v ELSE v)]
                        ELSE r : r \in @}]

\* SET r.k = v for every bound r.
SetRel(g, rids, k, v) ==
    [g EXCEPT !.rels = {IF r.rid \in rids THEN [r EXCEPT !.props = SetProp(@, k, v)]
                        ELSE r : r \in @}]

(***************************************************************************)
(* The Cypher statement of each load step, applied to one row of $rows.    *)
(***************************************************************************)
\* MERGE (c:Category {id}) SET c.name
LoadCategoryRow(g, row) ==
    LET g1 == MergeNode(g, "Category", row.id)
        c  == MatchNode(g1, "Category", row.id)
    IN  SetNode(g1, c, "name", row.name)

\* The product statement with the MATCH of the category before the MERGE
\* of the product: a row whose category is missing does nothing.
LoadProductRowMatchFirst(g, row) ==
    LET c  == MatchNode(g, "Category", row.category_id)
        g1 == IF c = {} THEN g ELSE MergeNode(g, "Product", row.id)
        p  == IF c = {} THEN {} ELSE MatchNode(g1, "Product", row.id)
        g2 == SetNode(SetNode(g1, p, "name", row.name), p, "price", row.price)
    IN  MergeRels(g2, "IN_CATEGORY", p \X c, NoProps)

\* MERGE (p:Product {id}) SET p.name, p.price WITH p, row
\* MATCH (c:Category {id: row.category_id}) MERGE (p)-[:IN_CATEGORY]->(c)
LoadProductRow(g, row) ==
    LET g1 == MergeNode(g, "Product", row.id)
        p  == MatchNode(g1, "Product", row.id)
        g2 == SetNode(SetNode(g1, p, "name", row.name), p, "price", row.price)
        c  == MatchNode(g2, "Category", row.category_id)
    IN  MergeRels(g2, "IN_CATEGORY", p \X c, NoProps)

\* MERGE (c:Customer {id}) SET c.name, c.join_date = date(row.join_date)
LoadCustomerRow(g, row) ==
    LET g1 == MergeNode(g, "Customer", row.id)
        c  == MatchNode(g1, "Customer", row.id)
    IN  SetNode(SetNode(g1, c, "name", row.name), c, "join_date", Date(row.join_date))

\* The order statement with MERGE in the place of MATCH for the customer.
LoadOrderRowMergingCustomer(g, row) ==
    LET g1 == MergeNode(g, "Order", row.id)
        o  == MatchNode(g1, "Order", row.id)
        g2 == SetNode(g1, o, "ts", DateTime(row.ts))
        g3 == MergeNode(g2, "Customer", row.customer_id)
        c  == MatchNode(g3, "Customer", row.customer_id)
    IN  MergeRels(g3, "PLACED", c \X o, NoProps)

\* MERGE (o:Order {id}) SET o.ts = datetime(row.ts) WITH o, row
\* MATCH (c:Customer {id: row.customer_id}) MERGE (c)-[:PLACED]->(o)
LoadOrderRow(g, row) ==
    LET g1 == MergeNode(g, "Order", row.id)
        o  == MatchNode(g1, "Order", row.id)
        g2 == SetNode(g1, o, "ts", DateTime(row.ts))
        c  == MatchNode(g2, "Customer", row.customer_id)
    IN  MergeRels(g2, "PLACED", c \X o, NoProps)

\* The order-item statement with the relationship drawn from the product to
\* the order.
LoadOrderItemRowReversed(g, row) ==
    LET o  == MatchNode(g, "Order", row.order_id)
        p  == MatchNode(g, "Product", row.product_id)
        g1 == MergeRels(g, "CONTAINS", p \X o, NoProps)
        r  == MatchRel(g1, "CONTAINS", p, o, NoProps)
    IN  SetRel(g1, r, "quantity", row.quantity)

\* MATCH (o:Order {id: row.order_id}) MATCH (p:Product {id: row.product_id})
\* MERGE (o)-[r:CONTAINS]->(p) SET r.quantity = row.quantity
LoadOrderItemRow(g, row) ==
    LET o  == MatchNode(g, "Order", row.order_id)
        p  == MatchNode(g, "Product", row.product_id)
        g1 == MergeRels(g, "CONTAINS", o \X p, NoProps)
        r  == MatchRel(g1, "CONTAINS", o, p, NoProps)
    IN  SetRel(g1, r, "quantity", row.quantity)

\* MATCH (c:Customer {id: row.customer_id}) MATCH (p:Product {id: row.product_id})
\* MERGE (c)-[r:type {id: row.id}]->(p) SET r.ts = datetime(row.ts)
LoadEventRow(g, row, type) ==
    LET c  == MatchNode(g, "Customer", row.customer_id)
        p  == MatchNode(g, "Product", row.product_id)
        g1 == MergeRels(g, type, c \X p, [id |-> row.id])
        r  == MatchRel(g1, type, c, p, [id |-> row.id])
    IN  SetRel(g1, r, "ts", DateTime(row.ts))

\* The loops of etl(), in program order, named by what they load.
LoadPhases == <<"Category", "Product", "Customer", "Order", "OrderItem",
                "VIEWED", "CLICKED", "ADDED_TO_CART">>

EventKinds == {"VIEWED", "CLICKED", "ADDED_TO_CART"}

LoadRow(phase, g, row) ==
    CASE phase = "Category"  -> LoadCategoryRow(g, row)
      [] phase = "Product"   -> LoadProductRow(g, row)
      [] phase = "Customer"  -> LoadCustomerRow(g, row)
      [] phase = "Order"     -> LoadOrderRow(g, row)
      [] phase = "OrderItem" -> LoadOrderItemRow(g, row)
      [] OTHER               -> LoadEventRow(g, row, phase)

\* run_cypher("UNWIND $rows AS row ...", {"rows": rows}): the statement of
\* the phase applied to the rows of one batch, in order, in one transaction.
RECURSIVE run_cypher(_, _, _)
run_cypher(phase, g, rows) ==
    IF rows = <<>> THEN g
    ELSE run_cypher(phase, LoadRow(phase, g, Head(rows)), Tail(rows))

(***************************************************************************)
(* The relational source.  Its contents are described by a record db: how  *)
(* many rows each table holds (row i has key i), which row a foreign key   *)
(* of row i names (Ref), the event types, and the value ver its property   *)
(* columns hold.  Extract(db) is what the six queries of etl() return.     *)
(***************************************************************************)
\* event_type values; the last is none of the three the router knows.
EventTypes == <<"view", "click", "add_to_cart", "purchase">>

\* The key that row i's foreign key names: row i itself, or, shifted, another.
Ref(i, shift) == ((i - 1 + shift) % MaxRows) + 1

TypeOf(i, tshift) == EventTypes[((i - 1 + tshift) % Len(EventTypes)) + 1]

\* A table is empty or holds MaxRows rows; the categories table may also
\* hold fewer, so that some products name a category and others do not.
Sources ==
    [nCategory : 0..MaxRows, nProduct : {0, MaxRows}, nCustomer : {0, MaxRows},
     nOrder : {0, MaxRows}, nOrderItem : {0, MaxRows}, nEvent : {0, MaxRows},
     shift : {0, 1}, tshift : {0, 2}, ver : Vals]

\* The source before the first change: every foreign key of row i names row
\* i, the events are of the known types, the property columns hold 1.
InitialSources == {d \in Sources : d.shift = 0 /\ d.tshift = 0 /\ d.ver = 1}

Extract(db) ==
    [categories  |-> [i \in 1..db.nCategory |-> [id |-> i, name |-> db.ver]],
     products    |-> [i \in 1..db.nProduct |->
                        [id |-> i, name |-> db.ver, price |-> db.ver,
                         category_id |-> Ref(i, db.shift)]],
     customers   |-> [i \in 1..db.nCustomer |->
                        [id |-> i, name |-> db.ver, join_date |-> db.ver]],
     orders      |-> [i \in 1..db.nOrder |->
                        [id |-> i, customer_id |-> Ref(i, db.shift), ts |-> db.ver]],
     order_items |-> [i \in 1..db.nOrderItem |->
                        [order_id |-> i, product_id |-> Ref(i, db.shift),
                         quantity |-> db.ver]],
     events      |-> [i \in 1..db.nEvent |->
                        [id |-> i, customer_id |-> Ref(i, db.shift), product_id |-> i,
                         event_type |-> TypeOf(i, db.tshift), ts |-> db.ver]]]

NoSource == Extract([nCategory |-> 0, nProduct |-> 0, nCustomer |-> 0, nOrder |-> 0,
                     nOrderItem |-> 0, nEvent |-> 0, shift |-> 0, tshift |-> 0,
                     ver |-> 1])

\* The source after one change: rows inserted into one table, the foreign
\* keys re-pointed, the event types changed, or the property columns
\* updated.  Rows are not deleted.
Counts == {"nCategory", "nProduct", "nCustomer", "nOrder", "nOrderItem", "nEvent"}

Changed(db) ==
    {d \in Sources : /\ Cardinality({f \in DOMAIN db : d[f] # db[f]}) = 1
                     /\ \A f \in Counts : d[f] >= db[f]}

(***************************************************************************)
(* The readiness gates wait_for_postgres(timeout) and                      *)
(* wait_for_neo4j(timeout): probe, and after a failed probe compare the    *)
(* time elapsed with the timeout, then raise or sleep and probe again.     *)
(***************************************************************************)
Stores == {"Postgres", "Neo4j"}

\* time.sleep(2)
RetryInterval == 2

\* The timeout compared before the probe's result is looked at.
GateStepTimeoutFirst(ok, elapsed, timeout) ==
    IF elapsed > timeout THEN "raised" ELSE IF ok THEN "ready" ELSE "sleep"

\* The timeout compared with >=.
GateStepAtTimeout(ok, elapsed, timeout) ==
    IF ok THEN "ready" ELSE IF elapsed >= timeout THEN "raised" ELSE "sleep"

\* One pass of "while True: try: ... return / except: if time.time() - start
\* > timeout: raise ... time.sleep(2)": what follows a probe.
GateStep(ok, elapsed, timeout) ==
    IF ok THEN "ready" ELSE IF elapsed > timeout THEN "raised" ELSE "sleep"

\* RuntimeError("Postgres not ready ...") and RuntimeError("Neo4j not ready ...").
TimeoutError(store) == <<"RuntimeError", store, "not ready">>

\* No connection or driver is open.
NoneOpen == [s \in Stores |-> 0]

\* What a failed probe leaves open.  get_postgres_connection() raises
\* before there is a connection.  get_neo4j_driver() returns a driver (it
\* does not connect); driver.verify_connectivity() raises, and
\* driver.close() on the line after it is not reached.
LeftOpenByFailedProbe(store) == IF store = "Neo4j" THEN 1 ELSE 0

(***************************************************************************)
(* run_cypher_file(path).  The file is the sequence of the pieces between  *)
(* its ';'; piece k is blank (empty or white space only) or holds          *)
(* statement k.  The files are those of MaxPieces pieces.                  *)
(***************************************************************************)
Files == [1..MaxPieces -> BOOLEAN]

\* content.split(";"): piece k is the text of statement k, or 0 when blank.
Split(file) == [k \in 1..Len(file) |-> IF file[k] THEN k ELSE 0]

\* The pieces kept whether blank or not.
StatementsWithBlanks(file) == Split(file)

\* [s.strip() for s in content.split(";") if s.strip()]
Statements(file) == SelectSeq(Split(file), LAMBDA s : s # 0)

NoFile == <<>>

(***************************************************************************)
(* State.                                                                  *)
(***************************************************************************)
VARIABLES
    db,             \* the relational source
    graph,          \* the graph store
    src,            \* customers, categories, ... events: the extracted lists
    view_events, click_events, add_events,   \* the router's three lists
    pc,             \* where etl() is: idle, a gate, the schema, the
                    \* extraction, a load loop, route, done, failed
    off,            \* the cursor i of the running loop's chunk()
    applied,        \* batches applied in this run, per loop
    prev,           \* the source and graph at the end of the run just before
    disturbances,   \* changes of the source and failed operations so far
    start,          \* the graph when this run of etl() began
    last,           \* the run before this one: how it ended, whether a
                    \* batch failed, its lists, and the graph when it began
    err,            \* the exception that ended this run of etl()
    calls,          \* how often this run called each store's gate
    ready,          \* the stores whose gate returned in this run
    file,           \* the pieces of the statement file being applied
    statements,     \* run_cypher_file's list of statements
    executed,       \* the statements run_cypher_file has passed to run_cypher
    gstore, gtimeout, gelapsed, gpc,   \* the gate that is running: its
                    \* store, its timeout, time.time() - start, its position
    gprobe,         \* how the probe just made ended: ok, failed (none: no
                    \* probe since the gate was called or slept)
    open,           \* connections and drivers opened and not closed, per store
    citems, csize, ci, cout, cpc   \* chunk(items, size) run on its own

loadVars == <<graph, src, view_events, click_events, add_events, off, applied>>
histVars == <<prev, start, last>>
gateVars == <<gstore, gtimeout, gelapsed, gpc, gprobe>>
schemaVars == <<file, statements, executed>>
etlVars == <<db, graph, src, view_events, click_events, add_events, pc, off,
             applied, prev, disturbances, start, last, err, calls, ready,
             file, statements, executed>>
chunkVars == <<citems, csize, ci, cout, cpc>>
vars == <<db, graph, src, view_events, click_events, add_events, pc, off,
          applied, prev, disturbances, start, last, err, calls, ready,
          file, statements, executed, gstore, gtimeout, gelapsed, gpc, gprobe,
          open,
          citems, csize, ci, cout, cpc>>

LoadPhaseSet == {LoadPhases[k] : k \in 1..Len(LoadPhases)}

\* The list each loop iterates over.
Rows(phase) ==
    CASE phase = "Category"      -> src.categories
      [] phase = "Product"       -> src.products
      [] phase = "Customer"      -> src.customers
      [] phase = "Order"         -> src.orders
      [] phase = "OrderItem"     -> src.order_items
      [] phase = "VIEWED"        -> view_events
      [] phase = "CLICKED"       -> click_events
      [] phase = "ADDED_TO_CART" -> add_events

\* The loops with the order loop moved before the customer loop.
AfterLoopOrdersFirst(phase) ==
    CASE phase = "Category"      -> "Product"
      [] phase = "Product"       -> "Order"
      [] phase = "Order"         -> "Customer"
      [] phase = "Customer"      -> "OrderItem"
      [] phase = "OrderItem"     -> "route"
      [] phase = "VIEWED"        -> "CLICKED"
      [] phase = "CLICKED"       -> "ADDED_TO_CART"
      [] phase = "ADDED_TO_CART" -> "finish"

\* What follows a loop: the next loop, the event router after the fifth,
\* the completion message after the last.
AfterLoop(phase) ==
    CASE phase = "Category"      -> "Product"
      [] phase = "Product"       -> "Customer"
      [] phase = "Customer"      -> "Order"
      [] phase = "Order"         -> "OrderItem"
      [] phase = "OrderItem"     -> "route"
      [] phase = "VIEWED"        -> "CLICKED"
      [] phase = "CLICKED"       -> "ADDED_TO_CART"
      [] phase = "ADDED_TO_CART" -> "finish"

\* [e for e in events if e["event_type"] == t]
EventsOfType(events, t) == SelectSeq(events, LAMBDA e : e.event_type = t)

GatePcs == {"wait_for_postgres", "wait_for_neo4j"}

\* The store whose gate etl() is in.
GateOf(p) == IF p = "wait_for_postgres" THEN "Postgres" ELSE "Neo4j"

\* etl() without its call of wait_for_neo4j().
AfterGatePostgresOnly(p) == "schema"

\* What follows a gate that returned: the other gate, then the schema.
AfterGate(p) == IF p = "wait_for_postgres" THEN "wait_for_neo4j" ELSE "schema"

NoPrev == [valid |-> FALSE, src |-> NoSource, graph |-> EmptyGraph]

NoError == <<>>

NoLast == [outcome |-> "idle", load |-> FALSE, src |-> NoSource, start |-> EmptyGraph]

ChunkIdle ==
    /\ citems = <<>>
    /\ csize = 1
    /\ ci = 0
    /\ cout = <<>>
    /\ cpc = "idle"

GateIdle ==
    /\ gstore = "Postgres"
    /\ gtimeout = DefaultTimeout
    /\ gelapsed = 0
    /\ gpc = "idle"
    /\ gprobe = "none"

EtlIdle ==
    /\ db = [nCategory |-> 0, nProduct |-> 0, nCustomer |-> 0, nOrder |-> 0,
             nOrderItem |-> 0, nEvent |-> 0, shift |-> 0, tshift |-> 0, ver |-> 1]
    /\ graph = EmptyGraph
    /\ src = NoSource
    /\ view_events = <<>>
    /\ click_events = <<>>
    /\ add_events = <<>>
    /\ pc = "idle"
    /\ off = 0
    /\ applied = [p \in LoadPhaseSet |-> 0]
    /\ prev = NoPrev
    /\ disturbances = 0
    /\ start = EmptyGraph
    /\ last = NoLast
    /\ err = NoError
    /\ calls = [s \in Stores |-> 0]
    /\ ready = {}
    /\ file = NoFile
    /\ statements = <<>>
    /\ executed = <<>>

Init ==
    /\ db \in InitialSources
    /\ graph = EmptyGraph
    /\ src = NoSource
    /\ view_events = <<>>
    /\ click_events = <<>>
    /\ add_events = <<>>
    /\ pc = "idle"
    /\ off = 0
    /\ applied = [p \in LoadPhaseSet |-> 0]
    /\ prev = NoPrev
    /\ disturbances = 0
    /\ start = EmptyGraph
    /\ last = NoLast
    /\ err = NoError
    /\ calls = [s \in Stores |-> 0]
    /\ ready = {}
    /\ file = NoFile
    /\ statements = <<>>
    /\ executed = <<>>
    /\ GateIdle
    /\ open = NoneOpen
    /\ ChunkIdle

\* While etl() is not running the source changes.
ChangeSource ==
    /\ pc \in {"idle", "done", "failed"}
    /\ disturbances < MaxDisturbances
    /\ db' \in Changed(db)
    /\ disturbances' = disturbances + 1
    /\ UNCHANGED <<pc, err, calls, ready, open>>
    /\ UNCHANGED <<loadVars, histVars, gateVars, schemaVars, chunkVars>>

\* The program is started (a process of its own, lines 296-297): etl()
\* calls wait_for_postgres().
StartRun ==
    /\ pc \in {"idle", "done", "failed"}
    /\ pc' = "wait_for_postgres"
    /\ gstore' = "Postgres"
    /\ gtimeout' = DefaultTimeout
    /\ gelapsed' = 0
    /\ gpc' = "probe"
    /\ gprobe' = "none"
    /\ calls' = [s \in Stores |-> IF s = "Postgres" THEN 1 ELSE 0]
    /\ ready' = {}
    /\ err' = NoError
    /\ open' = NoneOpen
    /\ prev' = IF pc = "done" THEN [valid |-> TRUE, src |-> src, graph |-> graph]
               ELSE NoPrev
    /\ start' = graph
    /\ last' = [outcome |-> pc, load |-> (err # NoError /\ err[1] = "load"),
                src |-> src, start |-> start]
    /\ src' = NoSource
    /\ view_events' = <<>>
    /\ click_events' = <<>>
    /\ add_events' = <<>>
    /\ applied' = [p \in LoadPhaseSet |-> 0]
    /\ off' = 0
    /\ file' = NoFile
    /\ statements' = <<>>
    /\ executed' = <<>>
    /\ UNCHANGED <<db, graph, disturbances>>
    /\ UNCHANGED chunkVars

\* The probe of the running gate succeeds after d seconds: the connection
\* or driver is made, (verified,) closed, and the gate returns.
ProbeSucceeds ==
    /\ gpc = "probe"
    /\ \E d \in 0..MaxProbeTime :
          /\ gelapsed' = gelapsed + d
          /\ gpc' = GateStep(TRUE, gelapsed + d, gtimeout)
    /\ gprobe' = "ok"
    /\ UNCHANGED <<gstore, gtimeout, open>>
    /\ UNCHANGED <<etlVars, chunkVars>>

\* The probe raises after d seconds.  Within etl() a failed probe counts as
\* a disturbance.
ProbeFails ==
    /\ gpc = "probe"
    /\ pc \in GatePcs => disturbances < MaxDisturbances
    /\ disturbances' = IF pc \in GatePcs THEN disturbances + 1 ELSE disturbances
    /\ \E d \in 0..MaxProbeTime :
          /\ gelapsed' = gelapsed + d
          /\ gpc' = GateStep(FALSE, gelapsed + d, gtimeout)
          /\ err' = IF GateStep(FALSE, gelapsed + d, gtimeout) = "raised"
                    THEN TimeoutError(gstore) ELSE err
    /\ gprobe' = "failed"
    /\ open' = [open EXCEPT ![gstore] = @ + LeftOpenByFailedProbe(gstore)]
    /\ UNCHANGED <<gstore, gtimeout>>
    /\ UNCHANGED <<db, pc, calls, ready>>
    /\ UNCHANGED <<loadVars, histVars, schemaVars, chunkVars>>

\* time.sleep(2), then the next pass of the loop.
GateSleep ==
    /\ gpc = "sleep"
    /\ gelapsed' = gelapsed + RetryInterval
    /\ gpc' = "probe"
    /\ gprobe' = "none"
    /\ UNCHANGED <<gstore, gtimeout, open>>
    /\ UNCHANGED <<etlVars, chunkVars>>

\* The gate returned: etl() calls the next gate, or goes on to the schema.
GateReturns ==
    /\ pc \in GatePcs
    /\ gpc = "ready"
    /\ ready' = ready \cup {gstore}
    /\ pc' = AfterGate(pc)
    /\ IF AfterGate(pc) \in GatePcs
       THEN /\ gstore' = GateOf(AfterGate(pc))
            /\ gtimeout' = DefaultTimeout
            /\ gelapsed' = 0
            /\ gpc' = "probe"
            /\ gprobe' = "none"
            /\ calls' = [calls EXCEPT ![GateOf(AfterGate(pc))] = @ + 1]
       ELSE /\ gstore' = "Postgres"
            /\ gtimeout' = DefaultTimeout
            /\ gelapsed' = 0
            /\ gpc' = "idle"
            /\ gprobe' = "none"
            /\ calls' = calls
    /\ UNCHANGED <<db, disturbances, err, open>>
    /\ UNCHANGED <<loadVars, histVars, schemaVars, chunkVars>>

\* The gate raised its RuntimeError (err): the exception ends etl().
GateRaises ==
    /\ pc \in GatePcs
    /\ gpc = "raised"
    /\ pc' = "failed"
    /\ gstore' = "Postgres"
    /\ gtimeout' = DefaultTimeout
    /\ gelapsed' = 0
    /\ gpc' = "idle"
    /\ gprobe' = "none"
    /\ UNCHANGED <<db, disturbances, err, calls, ready, open>>
    /\ UNCHANGED <<loadVars, histVars, schemaVars, chunkVars>>

\* queries_path.exists() is false: the schema step is skipped.
SchemaAbsent ==
    /\ pc = "schema"
    /\ pc' = "extract"
    /\ UNCHANGED <<db, disturbances, err, calls, ready, open>>
    /\ UNCHANGED <<loadVars, histVars, gateVars, schemaVars, chunkVars>>

\* run_cypher_file reads the file and builds its list of statements.
SchemaOpen ==
    /\ pc = "schema"
    /\ \E f \in Files :
          /\ file' = f
          /\ statements' = Statements(f)
    /\ executed' = <<>>
    /\ pc' = "run_cypher_file"
    /\ UNCHANGED <<db, disturbances, err, calls, ready, open>>
    /\ UNCHANGED <<loadVars, histVars, gateVars, chunkVars>>

\* One pass of "for stmt in statements: run_cypher(stmt)".  The schema
\* statements (constraints, indexes) leave nodes and relationships alone.
SchemaStmt ==
    /\ pc = "run_cypher_file"
    /\ Len(executed) < Len(statements)
    /\ executed' = Append(executed, statements[Len(executed) + 1])
    /\ UNCHANGED <<db, pc, disturbances, err, calls, ready, file, statements, open>>
    /\ UNCHANGED <<loadVars, histVars, gateVars, chunkVars>>

\* run_cypher(stmt) raises: the exception leaves the loop, run_cypher_file
\* and etl().
SchemaStmtFails ==
    /\ pc = "run_cypher_file"
    /\ Len(executed) < Len(statements)
    /\ disturbances < MaxDisturbances
    /\ disturbances' = disturbances + 1
    /\ executed' = Append(executed, statements[Len(executed) + 1])
    /\ pc' = "failed"
    /\ err' = <<"statement", statements[Len(executed) + 1]>>
    /\ UNCHANGED <<db, calls, ready, file, statements, open>>
    /\ UNCHANGED <<loadVars, histVars, gateVars, chunkVars>>

\* The loop over the statements ends: run_cypher_file returns.
SchemaDone ==
    /\ pc = "run_cypher_file"
    /\ Len(executed) = Len(statements)
    /\ pc' = "extract"
    /\ file' = NoFile
    /\ statements' = <<>>
    /\ executed' = <<>>
    /\ UNCHANGED <<db, disturbances, err, calls, ready, open>>
    /\ UNCHANGED <<loadVars, histVars, gateVars, chunkVars>>

\* The extraction: the connection is made, the six queries return, the
\* connection is closed, the frames become lists of records.
ExtractRows ==
    /\ pc = "extract"
    /\ src' = Extract(db)
    /\ pc' = "Category"
    /\ UNCHANGED <<db, graph, view_events, click_events, add_events, off, applied,
                   disturbances, err, calls, ready, open>>
    /\ UNCHANGED <<histVars, gateVars, schemaVars, chunkVars>>

\* get_postgres_connection() or a query raises; a connection that was made
\* is closed by the finally clause, and the exception ends etl().
ExtractFails ==
    /\ pc = "extract"
    /\ disturbances < MaxDisturbances
    /\ disturbances' = disturbances + 1
    /\ pc' = "failed"
    /\ err' = <<"extraction">>
    /\ UNCHANGED <<db, calls, ready, open>>
    /\ UNCHANGED <<loadVars, histVars, gateVars, schemaVars, chunkVars>>

\* One iteration of "for rows in chunk(list, CHUNK_SIZE): run_cypher(...)".
\* run_cypher closes the driver it made.
ApplyBatch ==
    /\ pc \in LoadPhaseSet
    /\ RangeHasNext(off, Len(Rows(pc)), CHUNK_SIZE)
    /\ graph' = run_cypher(pc, graph, Slice(Rows(pc), off, off + CHUNK_SIZE))
    /\ off' = off + CHUNK_SIZE
    /\ applied' = [applied EXCEPT ![pc] = @ + 1]
    /\ UNCHANGED <<db, src, view_events, click_events, add_events, pc,
                   disturbances, err, calls, ready, open>>
    /\ UNCHANGED <<histVars, gateVars, schemaVars, chunkVars>>

\* The exception of a failed batch caught and dropped: the loop goes on
\* with the next chunk.
FailBatchSwallowed ==
    /\ pc \in LoadPhaseSet
    /\ RangeHasNext(off, Len(Rows(pc)), CHUNK_SIZE)
    /\ disturbances < MaxDisturbances
    /\ disturbances' = disturbances + 1
    /\ off' = off + CHUNK_SIZE
    /\ UNCHANGED <<db, graph, src, view_events, click_events, add_events, pc,
                   applied, err, calls, ready, open>>
    /\ UNCHANGED <<histVars, gateVars, schemaVars, chunkVars>>

\* run_cypher raises (the store refuses the batch or is unreachable): the
\* transaction leaves the graph as it was, the driver is closed by the
\* finally clause, and the exception ends etl().
FailBatch ==
    /\ pc \in LoadPhaseSet
    /\ RangeHasNext(off, Len(Rows(pc)), CHUNK_SIZE)
    /\ disturbances < MaxDisturbances
    /\ disturbances' = disturbances + 1
    /\ pc' = "failed"
    /\ err' = <<"load", pc>>
    /\ UNCHANGED <<db, calls, ready, open>>
    /\ UNCHANGED <<loadVars, histVars, gateVars, schemaVars, chunkVars>>

\* The loop's chunk() is exhausted.
EndLoop ==
    /\ pc \in LoadPhaseSet
    /\ ~RangeHasNext(off, Len(Rows(pc)), CHUNK_SIZE)
    /\ pc' = AfterLoop(pc)
    /\ off' = 0
    /\ UNCHANGED <<db, graph, src, view_events, click_events, add_events,
                   applied, disturbances, err, calls, ready, open>>
    /\ UNCHANGED <<histVars, gateVars, schemaVars, chunkVars>>

\* The event router: the three list comprehensions.
Route ==
    /\ pc = "route"
    /\ view_events' = EventsOfType(src.events, "view")
    /\ click_events' = EventsOfType(src.events, "click")
    /\ add_events' = EventsOfType(src.events, "add_to_cart")
    /\ pc' = "VIEWED"
    /\ UNCHANGED <<db, graph, src, off, applied, disturbances, err, calls,
                   ready, open>>
    /\ UNCHANGED <<histVars, gateVars, schemaVars, chunkVars>>

\* print("ETL done."): etl() returns.
Finish ==
    /\ pc = "finish"
    /\ pc' = "done"
    /\ UNCHANGED <<db, disturbances, err, calls, ready, open>>
    /\ UNCHANGED <<loadVars, histVars, gateVars, schemaVars, chunkVars>>

Next ==
    \/ ChangeSource
    \/ StartRun
    \/ ProbeSucceeds
    \/ ProbeFails
    \/ GateSleep
    \/ GateReturns
    \/ GateRaises
    \/ SchemaAbsent
    \/ SchemaOpen
    \/ SchemaStmt
    \/ SchemaStmtFails
    \/ SchemaDone
    \/ ExtractRows
    \/ ExtractFails
    \/ ApplyBatch
    \/ FailBatch
    \/ EndLoop
    \/ Route
    \/ Finish

Spec == Init /\ [][Next]_vars

(***************************************************************************)
(* A gate on its own: wait_for_postgres(timeout) and                       *)
(* wait_for_neo4j(timeout) called with every timeout in 0..MaxTimeout,     *)
(* against a store whose probes succeed or fail in any order and take 0 to *)
(* MaxProbeTime seconds each.                                              *)
(***************************************************************************)
GateInit ==
    /\ EtlIdle
    /\ ChunkIdle
    /\ gstore \in Stores
    /\ gtimeout \in 0..MaxTimeout
    /\ gelapsed = 0
    /\ gpc = "probe"
    /\ gprobe = "none"
    /\ open = NoneOpen

GateNext ==
    \/ ProbeSucceeds
    \/ ProbeFails
    \/ GateSleep

SpecGate == GateInit /\ [][GateNext]_vars

\* The gate runs on: a probe that is due is made, a sleep ends.
SpecGateFair == SpecGate /\ WF_vars(GateNext)

(***************************************************************************)
(* chunk(items, size) on its own: the generator is driven to its end for   *)
(* every list of at most MaxLen elements and every size in                 *)
(* -MaxSize..MaxSize.  cout collects what it yields.                       *)
(***************************************************************************)
Lists == UNION {[1..n -> 1..MaxItem] : n \in 0..MaxLen}

ChunkInit ==
    /\ EtlIdle
    /\ GateIdle
    /\ open = NoneOpen
    /\ citems \in Lists
    /\ csize \in (-MaxSize)..MaxSize
    /\ ci = 0
    /\ cout = <<>>
    /\ cpc = "start"

\* The first next(): range(0, len(items), size) is built, or raises.
ChunkStart ==
    /\ cpc = "start"
    /\ cpc' = IF RangeRaises(csize) THEN "error" ELSE "iter"
    /\ UNCHANGED <<citems, csize, ci, cout>>
    /\ UNCHANGED <<etlVars, gateVars, open>>

\* yield items[i:i + size]
ChunkYield ==
    /\ cpc = "iter"
    /\ RangeHasNext(ci, Len(citems), csize)
    /\ cout' = Append(cout, Slice(citems, ci, ci + csize))
    /\ ci' = ci + csize
    /\ UNCHANGED <<citems, csize, cpc>>
    /\ UNCHANGED <<etlVars, gateVars, open>>

\* The range is exhausted: the generator returns.
ChunkStop ==
    /\ cpc = "iter"
    /\ ~RangeHasNext(ci, Len(citems), csize)
    /\ cpc' = "done"
    /\ UNCHANGED <<citems, csize, ci, cout>>
    /\ UNCHANGED <<etlVars, gateVars, open>>

ChunkNext ==
    \/ ChunkStart
    \/ ChunkYield
    \/ ChunkStop

SpecChunk == ChunkInit /\ [][ChunkNext]_vars

(***************************************************************************)
(* Properties.                                                             *)
(***************************************************************************)
RECURSIVE Concat(_)
Concat(chunks) == IF chunks = <<>> THEN <<>> ELSE Head(chunks) \o Concat(Tail(chunks))

\* C4: for every list and every size k >= 1, the chunks that chunk() yields,
\* concatenated in the order they are yielded, are the list itself.
C4_ChunksConcatenateToItems ==
    (cpc = "done" /\ csize >= 1) => Concat(cout) = citems

\* A list cut into several chunks, the last one shorter than the size.
C4_Witness ==
    /\ cpc = "done"
    /\ csize >= 2
    /\ Len(cout) >= 2
    /\ Len(cout[Len(cout)]) < csize
    /\ Concat(cout) = citems

\* C5: for a list of length N and a size k >= 1, every chunk has at most k
\* elements, every chunk but the last has exactly k, the last has N mod k
\* (k when k divides N), no chunk is empty, and an empty list yields none.
C5_ChunkLengths ==
    (cpc = "done" /\ csize >= 1) =>
        LET N == Len(citems)
            k == csize
            m == Len(cout)
        IN  /\ \A j \in 1..m : Len(cout[j]) >= 1 /\ Len(cout[j]) <= k
            /\ \A j \in 1..(m - 1) : Len(cout[j]) = k
            /\ m > 0 => Len(cout[m]) = (IF N % k = 0 THEN k ELSE N % k)
            /\ N = 0 => m = 0
            /\ N > 0 => m > 0

\* Both shapes of the last chunk: one list that the size divides, and one
\* list that it does not, are cut into two or more chunks.
C5_Witness ==
    /\ cpc = "done"
    /\ csize >= 2
    /\ Len(cout) >= 2
    /\ Len(citems) % csize = 0
    /\ Len(cout[Len(cout)]) = csize

\* C6: chunk(items, size) with size <= 0 ends in an error for every list: it
\* never returns normally.
C6_NonPositiveSizeIsAnError ==
    csize <= 0 => cpc # "done"

(***************************************************************************)
(* Properties of the load phase.                                           *)
(***************************************************************************)
\* C1: a complete run that follows a complete run against the same six
\* lists ends with the graph the earlier run ended with: the same nodes,
\* relationships and property values, whatever the graph was before.
C1_RerunLeavesGraphUnchanged ==
    (pc = "done" /\ prev.valid /\ prev.src = src) => graph = prev.graph

\* The run repeats the run before it, on a graph that an earlier run against
\* another source had filled: a product is IN_CATEGORY of two categories,
\* one of which the source of the two runs does not give it.
C1_Witness ==
    /\ pc = "done"
    /\ prev.valid
    /\ prev.src = src
    /\ Len(src.products) > 0
    /\ Cardinality({r \in graph.rels : r.type = "IN_CATEGORY"}) > Len(src.products)
    /\ \E r \in graph.rels : r.type = "CONTAINS"
    /\ \E r \in graph.rels : r.type \in EventKinds

\* Every batch of the loop has been applied in this run.
LoopDone(phase) == applied[phase] = NumChunks(Len(Rows(phase)), CHUNK_SIZE)

\* C2: batches are applied in the order Category, Product, Customer, Order,
\* OrderItem, Event: a batch of one collection is applied only when every
\* batch of the collections before it has been applied.
C2_BatchOrder ==
    /\ \A i \in 1..5 : \A j \in (i + 1)..5 :
          applied[LoadPhases[j]] > 0 => LoopDone(LoadPhases[i])
    /\ \A k \in EventKinds : \A i \in 1..5 :
          applied[k] > 0 => LoopDone(LoadPhases[i])

\* A run in which every table spans two batches or more and an event batch
\* has been applied.
C2_Witness ==
    /\ \A i \in 1..5 : applied[LoadPhases[i]] >= 2
    /\ \E k \in EventKinds : applied[k] > 0

Key(n) == IF "id" \in DOMAIN n.props THEN n.props["id"] ELSE 0

\* At most one node per (label, id).
UniqueNodes ==
    \A n, m \in graph.nodes :
        (n.label = m.label /\ Key(n) = Key(m)) => n.nid = m.nid

\* At most one IN_CATEGORY, PLACED and CONTAINS relationship per ordered pair.
UniquePairRels ==
    \A r, q \in graph.rels :
        (r.type \notin EventKinds /\ r.type = q.type /\ r.from = q.from /\ r.to = q.to)
            => r.rid = q.rid

\* At most one event relationship per (relationship type, event id).
UniqueEventRels ==
    \A r, q \in graph.rels :
        (r.type \in EventKinds /\ r.type = q.type /\ Key(r) = Key(q)) => r.rid = q.rid

\* C3: in every state, at most one node per (kind, id), at most one
\* IN_CATEGORY, PLACED and CONTAINS relationship per ordered pair of nodes,
\* and at most one event relationship per (kind, event id).
C3_NoDuplicates == UniqueNodes /\ UniquePairRels /\ UniqueEventRels

\* The router has run in this run of etl().
Routed == pc \in EventKinds \cup {"finish", "done"}

KnownTypes == {"view", "click", "add_to_cart"}

\* C7: the three lists of the router together hold every event record
\* exactly once, each in the list of its event_type.
C7_PartitionComplete ==
    Routed =>
        /\ Len(view_events) + Len(click_events) + Len(add_events) = Len(src.events)
        /\ \A i \in 1..Len(view_events) : view_events[i].event_type = "view"
        /\ \A i \in 1..Len(click_events) : click_events[i].event_type = "click"
        /\ \A i \in 1..Len(add_events) : add_events[i].event_type = "add_to_cart"

\* C8: no run ends with "ETL done." when an event record has an event_type
\* other than view, click and add_to_cart.
C8_UnknownTypeSurfaced ==
    pc = "done" => \A i \in 1..Len(src.events) : src.events[i].event_type \in KnownTypes

\* A relationship of the type runs from the node (la, a) to the node (lb, b).
HasRel(type, la, a, lb, b) ==
    \E r \in graph.rels :
        /\ r.type = type
        /\ r.from \in MatchNode(graph, la, a)
        /\ r.to \in MatchNode(graph, lb, b)

KindOf(t) ==
    CASE t = "view" -> "VIEWED" [] t = "click" -> "CLICKED" [] OTHER -> "ADDED_TO_CART"

\* C9: no run ends with "ETL done." with the relationship of a product,
\* order, order-item or (known) event row absent from the graph.
C9_MissingEndpointSurfaced ==
    pc = "done" =>
        /\ \A i \in 1..Len(src.products) :
              HasRel("IN_CATEGORY", "Product", src.products[i].id,
                     "Category", src.products[i].category_id)
        /\ \A i \in 1..Len(src.orders) :
              HasRel("PLACED", "Customer", src.orders[i].customer_id,
                     "Order", src.orders[i].id)
        /\ \A i \in 1..Len(src.order_items) :
              HasRel("CONTAINS", "Order", src.order_items[i].order_id,
                     "Product", src.order_items[i].product_id)
        /\ \A i \in 1..Len(src.events) :
              src.events[i].event_type \in KnownTypes =>
                  HasRel(KindOf(src.events[i].event_type),
                         "Customer", src.events[i].customer_id,
                         "Product", src.events[i].product_id)

NodesOf(g, label) == {n \in g.nodes : n.label = label}

\* The label of the nodes a loop's statement may create (MERGE).
OwnLabel(phase) ==
    IF phase \in {"Category", "Product", "Customer", "Order"} THEN phase ELSE "none"

\* C10: a load step creates no node of a kind other than its own: a product
\* batch adds no Category node, an order batch no Customer node, and an
\* order-item or event batch leaves the nodes as they are, also when the row
\* names an endpoint that does not exist.
C10_NoForeignNodeCreated ==
    [][\A label \in {"Category", "Product", "Customer", "Order"} :
          (pc \in LoadPhaseSet /\ label # OwnLabel(pc))
              => NodesOf(graph', label) = NodesOf(graph, label)]_vars

\* An order batch and an event batch have been applied whose rows name a
\* customer that is not in the graph.
C10_Witness ==
    /\ pc = "done"
    /\ applied["Order"] > 0
    /\ \E k \in EventKinds : applied[k] > 0
    /\ NodesOf(graph, "Order") # {}
    /\ NodesOf(graph, "Customer") = {}

\* Every chunk a loop may be handed: the runs of consecutive rows of its list.
ChunksOf(rows) ==
    {Slice(rows, i, j) : <<i, j>> \in {p \in (0..Len(rows)) \X (0..Len(rows)) : p[1] < p[2]}}

\* C11: each load operation is idempotent: on every graph and for every
\* chunk, applying the chunk a second time leaves the graph as the first
\* application left it (no node, relationship or property differs).
C11_LoadIdempotent ==
    \A phase \in LoadPhaseSet : \A rows \in ChunksOf(Rows(phase)) :
        LET once == run_cypher(phase, graph, rows)
        IN  run_cypher(phase, once, rows) = once

\* A chunk of two product rows whose first application adds nodes and
\* relationships to a graph that is not empty.
C11_Witness ==
    \E rows \in ChunksOf(src.products) :
        LET once == run_cypher("Product", graph, rows)
        IN  /\ Len(rows) = 2
            /\ graph.nodes # {}
            /\ once.nodes # graph.nodes
            /\ once.rels # graph.rels

(***************************************************************************)
(* The graph a source describes.                                           *)
(***************************************************************************)
Range(seq) == {seq[i] : i \in 1..Len(seq)}

IdsOf(seq) == {r.id : r \in Range(seq)}

\* No two rows of the list agree on the key.
UniqueBy(seq, KeyOf(_)) ==
    \A i, j \in 1..Len(seq) : KeyOf(seq[i]) = KeyOf(seq[j]) => i = j

RowId(r) == r.id

ItemKey(r) == <<r.order_id, r.product_id>>

\* Ids are unique, every foreign key names a row of the table it refers to,
\* and every event is of a known type.
Consistent(s) ==
    /\ UniqueBy(s.categories, RowId) /\ UniqueBy(s.products, RowId)
    /\ UniqueBy(s.customers, RowId) /\ UniqueBy(s.orders, RowId)
    /\ UniqueBy(s.events, RowId) /\ UniqueBy(s.order_items, ItemKey)
    /\ \A r \in Range(s.products) : r.category_id \in IdsOf(s.categories)
    /\ \A r \in Range(s.orders) : r.customer_id \in IdsOf(s.customers)
    /\ \A r \in Range(s.order_items) :
          r.order_id \in IdsOf(s.orders) /\ r.product_id \in IdsOf(s.products)
    /\ \A r \in Range(s.events) :
          /\ r.customer_id \in IdsOf(s.customers)
          /\ r.product_id \in IdsOf(s.products)
          /\ r.event_type \in KnownTypes

\* The nodes and relationships of a graph without their internal ids: a
\* node as its label and properties, a relationship as its type, the label
\* and properties of its two ends, and its properties.
NodeShape(n) == [label |-> n.label, props |-> n.props]

EndOf(g, nid) == NodeShape(CHOOSE n \in g.nodes : n.nid = nid)

NodeShapes(g) == {NodeShape(n) : n \in g.nodes}

RelShapes(g) ==
    {[type |-> r.type, from |-> EndOf(g, r.from), to |-> EndOf(g, r.to),
      props |-> r.props] : r \in g.rels}

CategoryNode(r) == [label |-> "Category", props |-> [id |-> r.id, name |-> r.name]]

ProductNode(r) ==
    [label |-> "Product", props |-> [id |-> r.id, name |-> r.name, price |-> r.price]]

CustomerNode(r) ==
    [label |-> "Customer",
     props |-> [id |-> r.id, name |-> r.name, join_date |-> Date(r.join_date)]]

OrderNode(r) == [label |-> "Order", props |-> [id |-> r.id, ts |-> DateTime(r.ts)]]

\* The row of the list with the id.
RowOf(seq, id) == CHOOSE r \in Range(seq) : r.id = id

ExpectedNodes(s) ==
    {CategoryNode(r) : r \in Range(s.categories)}
        \cup {ProductNode(r) : r \in Range(s.products)}
        \cup {CustomerNode(r) : r \in Range(s.customers)}
        \cup {OrderNode(r) : r \in Range(s.orders)}

ExpectedRels(s) ==
    {[type |-> "IN_CATEGORY", from |-> ProductNode(r),
      to |-> CategoryNode(RowOf(s.categories, r.category_id)),
      props |-> NoProps] : r \in Range(s.products)}
        \cup {[type |-> "PLACED", from |-> CustomerNode(RowOf(s.customers, r.customer_id)),
                to |-> OrderNode(r), props |-> NoProps] : r \in Range(s.orders)}
        \cup {[type |-> "CONTAINS", from |-> OrderNode(RowOf(s.orders, r.order_id)),
                to |-> ProductNode(RowOf(s.products, r.product_id)),
                props |-> [quantity |-> r.quantity]] : r \in Range(s.order_items)}
        \cup {[type |-> KindOf(r.event_type),
                from |-> CustomerNode(RowOf(s.customers, r.customer_id)),
                to |-> ProductNode(RowOf(s.products, r.product_id)),
                props |-> [id |-> r.id, ts |-> DateTime(r.ts)]] : r \in Range(s.events)}

\* C12: a complete run that began on the empty graph, against a consistent
\* source, ends with exactly one node per category, product, customer and
\* order row, holding the row's values, exactly one IN_CATEGORY, PLACED,
\* CONTAINS (with the quantity) and event relationship per row, between the
\* nodes the row names, and nothing else.
C12_GraphIsTheSource ==
    (pc = "done" /\ start = EmptyGraph /\ Consistent(src)) =>
        /\ NodeShapes(graph) = ExpectedNodes(src)
        /\ Cardinality(graph.nodes) = Cardinality(ExpectedNodes(src))
        /\ RelShapes(graph) = ExpectedRels(src)
        /\ Cardinality(graph.rels) = Cardinality(ExpectedRels(src))

\* Such a run whose source fills every table, with each foreign key naming
\* a row other than its own.
C12_Witness ==
    /\ pc = "done"
    /\ start = EmptyGraph
    /\ Consistent(src)
    /\ \A p \in LoadPhaseSet \ EventKinds : Len(Rows(p)) = MaxRows
    /\ Len(src.events) = MaxRows
    /\ \E r \in Range(src.products) : r.category_id # r.id
    /\ Cardinality(graph.rels) = 4 * MaxRows

(***************************************************************************)
(* Properties of the readiness gates.                                      *)
(***************************************************************************)
\* A step in which the gate makes a probe.
ProbeMade == gpc = "probe" /\ gprobe' # "none"

\* C13: a gate returns at the first probe that succeeds; after a failed
\* probe it sleeps and probes again while the time elapsed is at most the
\* timeout, and raises the RuntimeError that names its store when the time
\* elapsed is above the timeout, never at or below it; and, time advancing
\* with every retry, it ends in one of the two: returned or raised.
C13_GateContract ==
    /\ [][/\ (ProbeMade /\ gprobe' = "ok") => gpc' = "ready"
          /\ (ProbeMade /\ gprobe' = "failed" /\ gelapsed' <= gtimeout) => gpc' = "sleep"
          /\ (ProbeMade /\ gprobe' = "failed" /\ gelapsed' > gtimeout) =>
                (gpc' = "raised" /\ err' = TimeoutError(gstore))
          /\ gpc = "sleep" => (gpc' = "probe" /\ gelapsed' > gelapsed)
          /\ gpc' = "raised" => gelapsed' > gtimeout
          /\ gpc \in {"ready", "raised"} => gpc' = gpc]_vars
    /\ <>(gpc \in {"ready", "raised"})

\* The Neo4j gate raised after it had slept and probed again.
C13_Witness ==
    /\ gpc = "raised"
    /\ gstore = "Neo4j"
    /\ err = TimeoutError("Neo4j")
    /\ gtimeout >= MaxProbeTime
    /\ gelapsed > gtimeout

\* C18: no connection or driver that a probe, run_cypher or the extraction
\* opened is left open when that piece of work has ended, whether it
\* returned or raised.
C18_NothingLeftOpen == \A s \in Stores : open[s] = 0

\* C19: the timeout is looked at only after a failed probe: a probe that
\* succeeds makes the gate return whatever time has elapsed, and the gate
\* raises only in a step whose probe failed.
C19_TimeoutOnlyAfterFailedProbe ==
    [][/\ (ProbeMade /\ gprobe' = "ok") => gpc' = "ready"
       /\ (gpc # "raised" /\ gpc' = "raised") => (ProbeMade /\ gprobe' = "failed")]_vars

\* The gate returned with more time elapsed than its timeout, after a
\* failed probe and a sleep.
C19_Witness ==
    /\ gpc = "ready"
    /\ gelapsed > gtimeout
    /\ gelapsed >= RetryInterval
    /\ \E s \in Stores : open[s] > 0

(***************************************************************************)
(* Properties of the start of etl().                                       *)
(***************************************************************************)
\* This run has come to the schema step or further: a statement of the file
\* has been passed to run_cypher, the extraction has been reached, or a
\* batch has been applied.
PastGates ==
    \/ pc \in {"schema", "run_cypher_file", "extract", "route", "finish", "done"}
    \/ pc \in LoadPhaseSet
    \/ executed # <<>>
    \/ src # NoSource
    \/ \E p \in LoadPhaseSet : applied[p] > 0
    \/ (pc = "failed" /\ err[1] \in {"statement", "extraction", "load"})

TimedOut == pc = "failed" /\ \E s \in Stores : err = TimeoutError(s)

\* C14: in every run nothing of the schema, the extraction or the load
\* happens before both gates have returned; each gate is called once, never
\* twice; and a run that a gate's timeout ends leaves the graph as it was
\* when the run began, with nothing executed, extracted or applied.
C14_GatesFirst ==
    /\ PastGates => (ready = Stores /\ \A s \in Stores : calls[s] = 1)
    /\ \A s \in Stores : calls[s] <= 1
    /\ pc = "done" => \A s \in Stores : calls[s] = 1
    /\ TimedOut =>
          /\ graph = start
          /\ executed = <<>>
          /\ src = NoSource
          /\ \A p \in LoadPhaseSet : applied[p] = 0

\* The Neo4j gate, called after the Postgres gate returned, timed out in a
\* run that began on a graph an earlier run had filled.
C14_Witness ==
    /\ TimedOut
    /\ err = TimeoutError("Neo4j")
    /\ ready = {"Postgres"}
    /\ graph.rels # {}
    /\ graph = start

\* The pieces of the file that hold a statement.
NonBlank == {k \in 1..Len(file) : file[k]}

StatementFailed == pc = "failed" /\ err # NoError /\ err[1] = "statement"

\* C15: run_cypher_file passes to run_cypher the non-blank pieces of the
\* file only, in file order, none twice and none skipped, and returns when
\* all have been executed; when a statement fails, it is the last one
\* executed, the error ends etl(), and that run extracts nothing and
\* applies no batch.
C15_StatementsInOrder ==
    /\ [](/\ \A i \in 1..Len(executed) : executed[i] \in NonBlank
          /\ \A i, j \in 1..Len(executed) : i < j => executed[i] < executed[j]
          /\ \A i \in 1..Len(executed) : \A k \in NonBlank :
                k < executed[i] => k \in Range(executed)
          /\ StatementFailed =>
                /\ executed # <<>>
                /\ err[2] = executed[Len(executed)]
                /\ src = NoSource
                /\ graph = start
                /\ \A p \in LoadPhaseSet : applied[p] = 0)
    /\ [][/\ (pc = "run_cypher_file" /\ pc' = "extract") => Range(executed) = NonBlank
          /\ (pc = "run_cypher_file" /\ pc' = "failed") => StatementFailed'
          /\ (StatementFailed /\ pc' = "failed") => (executed' = executed /\ src' = src)]_vars

\* The first statement of a file of two statements and a blank piece
\* failed: the second statement was not executed.
C15_Witness ==
    /\ StatementFailed
    /\ Len(file) >= 3
    /\ \E k \in 1..Len(file) : ~file[k]
    /\ Len(executed) = 1
    /\ Cardinality(NonBlank) = 2

(***************************************************************************)
(* Properties of a failed batch.                                           *)
(***************************************************************************)
\* The place of a loop in the program.
PhaseIndex(phase) == CHOOSE k \in 1..Len(LoadPhases) : LoadPhases[k] = phase

LoadFailed == pc = "failed" /\ err # NoError /\ err[1] = "load"

\* C16: a failed batch halts the run: every batch of the loops before the
\* failed one and the batches before it in its own loop have been applied,
\* the failed batch and every later one have not, nothing is applied after
\* it and "ETL done." is not printed; and "ETL done." is printed only when
\* every batch of every loop has been applied.
C16_FailedBatchHalts ==
    /\ [](/\ LoadFailed =>
                /\ \A k \in 1..Len(LoadPhases) :
                      /\ k < PhaseIndex(err[2]) => LoopDone(LoadPhases[k])
                      /\ k > PhaseIndex(err[2]) => applied[LoadPhases[k]] = 0
                /\ applied[err[2]] * CHUNK_SIZE = off
                /\ applied[err[2]] < NumChunks(Len(Rows(err[2])), CHUNK_SIZE)
          /\ pc \in {"finish", "done"} => \A p \in LoadPhaseSet : LoopDone(p))
    /\ [][/\ (pc \in LoadPhaseSet /\ pc' = "failed") => LoadFailed'
          /\ pc = "failed" => pc' \in {"failed", "wait_for_postgres"}
          /\ (pc = "failed" /\ pc' = "failed") => (graph' = graph /\ applied' = applied)
          /\ pc' = "done" => pc \in {"finish", "done"}]_vars

\* The second batch of the orders failed after both batches of the loops
\* before it and the first batch of the orders had been applied.
C16_Witness ==
    /\ LoadFailed
    /\ err[2] = "Order"
    /\ applied["Order"] = 1
    /\ applied["Customer"] = 2
    /\ applied["Product"] = 2
    /\ NodesOf(graph, "Order") # {}

(***************************************************************************)
(* Recovery by running again.                                              *)
(***************************************************************************)
\* for rows in chunk(list, CHUNK_SIZE): run_cypher(...), from the cursor i on.
RECURSIVE LoadFrom(_, _, _, _)
LoadFrom(phase, g, rows, i) ==
    IF RangeHasNext(i, Len(rows), CHUNK_SIZE)
    THEN LoadFrom(phase, run_cypher(phase, g, Slice(rows, i, i + CHUNK_SIZE)),
                  rows, i + CHUNK_SIZE)
    ELSE g

\* The eight loops of etl(), none failing, on the graph g and the lists s.
FullRun(g, s) ==
    LET g1 == LoadFrom("Category", g, s.categories, 0)
        g2 == LoadFrom("Product", g1, s.products, 0)
        g3 == LoadFrom("Customer", g2, s.customers, 0)
        g4 == LoadFrom("Order", g3, s.orders, 0)
        g5 == LoadFrom("OrderItem", g4, s.order_items, 0)
        g6 == LoadFrom("VIEWED", g5, EventsOfType(s.events, "view"), 0)
        g7 == LoadFrom("CLICKED", g6, EventsOfType(s.events, "click"), 0)
    IN  LoadFrom("ADDED_TO_CART", g7, EventsOfType(s.events, "add_to_cart"), 0)

\* This run follows a run that a failed batch ended, on the same lists.
Recovering == last.outcome = "failed" /\ last.load /\ last.src = src

\* C17: a run that a failed batch ended, followed by a complete run on the
\* same source, leaves the graph a single complete run leaves when it
\* starts on the graph the failed run started on (and a complete run
\* leaves what the eight loops give on its starting graph).
C17_RecoveryByRerun ==
    /\ pc = "done" => graph = FullRun(start, src)
    /\ (pc = "done" /\ Recovering) => graph = FullRun(last.start, src)

\* The failed run had applied batches up to an order-item batch, and the
\* run after it applied the rest.
C17_Witness ==
    /\ pc = "done"
    /\ Recovering
    /\ start # last.start
    /\ graph # start
    /\ \E r \in start.rels : r.type = "CONTAINS"

(***************************************************************************)
(* Rows that name a node the graph does not hold.                          *)
(***************************************************************************)
\* The graph g holds a node of the label with the id and the properties.
HasNode(g, label, id, props) ==
    \E n \in g.nodes : n.label = label /\ HasProps(n.props, [id |-> id]) /\ HasProps(n.props, props)

\* The relationships of the type between the nodes (la, a) and (lb, b) of g.
RelsBetween(g, type, la, a, lb, b) ==
    {r \in g.rels : /\ r.type = type
                     /\ r.from \in MatchNode(g, la, a)
                     /\ r.to \in MatchNode(g, lb, b)}

\* What one application of a chunk of product rows to the graph gives:
\* each row's node with its values; the relationship where the category
\* is there, none added where it is not.
ProductChunkApplied(rows) ==
    LET once == run_cypher("Product", graph, rows)
    IN  \A row \in Range(rows) :
            /\ HasNode(once, "Product", row.id, [name |-> row.name, price |-> row.price])
            /\ IF MatchNode(graph, "Category", row.category_id) = {}
               THEN RelsBetween(once, "IN_CATEGORY", "Product", row.id,
                                "Category", row.category_id) = {}
               ELSE RelsBetween(once, "IN_CATEGORY", "Product", row.id,
                                "Category", row.category_id) # {}

OrderChunkApplied(rows) ==
    LET once == run_cypher("Order", graph, rows)
    IN  \A row \in Range(rows) :
            /\ HasNode(once, "Order", row.id, [ts |-> DateTime(row.ts)])
            /\ IF MatchNode(graph, "Customer", row.customer_id) = {}
               THEN RelsBetween(once, "PLACED", "Customer", row.customer_id,
                                "Order", row.id) = {}
               ELSE RelsBetween(once, "PLACED", "Customer", row.customer_id,
                                "Order", row.id) # {}

\* C20: a product (order) row that names a category (customer) the graph
\* does not hold still gets its node with its values, only its
\* relationship is left out; the other rows of its batch get theirs, and
\* the run goes on through every later batch to "ETL done.".
C20_PartialRowApplied ==
    /\ \A rows \in ChunksOf(src.products) : ProductChunkApplied(rows)
    /\ \A rows \in ChunksOf(src.orders) : OrderChunkApplied(rows)
    /\ pc = "done" =>
          /\ \A p \in LoadPhaseSet : LoopDone(p)
          /\ \A row \in Range(src.products) :
                /\ HasNode(graph, "Product", row.id, [name |-> row.name, price |-> row.price])
                /\ HasRel("IN_CATEGORY", "Product", row.id, "Category", row.category_id)
                      <=> MatchNode(graph, "Category", row.category_id) # {}
          /\ \A row \in Range(src.orders) :
                /\ HasNode(graph, "Order", row.id, [ts |-> DateTime(row.ts)])
                /\ HasRel("PLACED", "Customer", row.customer_id, "Order", row.id)
                      <=> MatchNode(graph, "Customer", row.customer_id) # {}

\* A complete run in which one product has its category and the other
\* names a category that is not there, the orders name customers that are
\* not there, and the order items after them were applied.
C20_Witness ==
    /\ pc = "done"
    /\ \E row \in Range(src.products) : MatchNode(graph, "Category", row.category_id) = {}
    /\ \E row \in Range(src.products) :
          HasRel("IN_CATEGORY", "Product", row.id, "Category", row.category_id)
    /\ \E row \in Range(src.orders) : MatchNode(graph, "Customer", row.customer_id) = {}
    /\ \A row \in Range(src.orders) : HasNode(graph, "Order", row.id, [ts |-> DateTime(row.ts)])
    /\ \E r \in graph.rels : r.type = "CONTAINS"

=============================================================================
